---- MODULE Spec2Model ----
(***************************************************************************)
(* Model of src/main.rs: the token classifier (parse_number,               *)
(* parse_expression_token) and the two-stack expression evaluator          *)
(* (evaluate_expression).                                                  *)
(*                                                                         *)
(* Strings are sequences of one-character strings.  i64 is modelled as a   *)
(* two's-complement integer of Bits bits (TLC's integers are 32 bits wide, *)
(* so the word is scaled down; every range check, wrap and overflow is     *)
(* taken at that width).  Source indices are 0-based, the model's 1-based. *)
(***************************************************************************)
EXTENDS Integers, Sequences, FiniteSets, TLC

VARIABLES
    raw,              \* parse_expression_token: the argument string `input`
    tok,              \* parse_expression_token: its Result<ExprToken, String>
    tokens,           \* args.calc, the slice handed to evaluate_expression
    overflow_checks,  \* build profile: "on" = arithmetic overflow panics, "off" = it wraps
    stack,            \* call stack of evaluate_expression, one frame per active call
    result            \* what main receives: None while running, Ok(v), Err(msg) or Panic

vars == <<raw, tok, tokens, overflow_checks, stack, result>>

-----------------------------------------------------------------------------
(* Bounds of the model *)

Bits == 8          \* width of the modelled i64
MaxLen == 5        \* longest arbitrary token sequence
MaxLeaves == 3     \* most operands of a well-formed infix sequence
MaxRaw == 5        \* longest argument string

-----------------------------------------------------------------------------
(* i64 *)

RECURSIVE Pow(_, _)
Pow(b, e) == IF e = 0 THEN 1 ELSE b * Pow(b, e - 1)

I64_MIN == -Pow(2, Bits - 1)
I64_MAX == Pow(2, Bits - 1) - 1
InI64(x) == I64_MIN <= x /\ x <= I64_MAX

\* two's-complement wrap of a mathematical integer into the i64 range
Wrap(x) == ((x - I64_MIN) % Pow(2, Bits)) + I64_MIN

Abs(x) == IF x < 0 THEN -x ELSE x

\* Rust's `/` on integers: the quotient truncated toward zero
TruncDiv(a, b) ==
    IF (a >= 0) = (b > 0) THEN Abs(a) \div Abs(b) ELSE -(Abs(a) \div Abs(b))

-----------------------------------------------------------------------------
(* enum ExprToken *)

Number(n) == [t |-> "Number", v |-> n]
Operator(c) == [t |-> "Operator", c |-> c]
LeftParen == [t |-> "LeftParen"]
RightParen == [t |-> "RightParen"]

(* Results *)
None == [k |-> "None"]
Ok(v) == [k |-> "Ok", v |-> v]
Err(msg) == [k |-> "Err", msg |-> msg]
Panic(why) == [k |-> "Panic", why |-> why]

\* the messages of evaluate_expression
MissingRightOperand == "MissingRightOperand"       \* "缺少右操作数"
MissingLeftOperand == "MissingLeftOperand"         \* "缺少左操作数"
DivisionByZero == "DivisionByZero"                 \* "除零错误"
UnbalancedBrackets == "UnbalancedBrackets"         \* "括号不匹配"
UnmatchedRightBracket == "UnmatchedRightBracket"   \* "多余的右括号"
EmptyExpression == "EmptyExpression"               \* "表达式计算失败"

-----------------------------------------------------------------------------
(* parse_number and parse_expression_token *)

\* the characters argument strings are drawn from
RawChars == {"0", "1", "7", "A", "x", "b", "+", "-", "/", "[", "]"}

\* str::strip_prefix: Some(rest) when s starts with prefix, else None
strip_prefix(s, prefix) ==
    IF Len(s) >= Len(prefix) /\ SubSeq(s, 1, Len(prefix)) = prefix
    THEN Ok(SubSeq(s, Len(prefix) + 1, Len(s)))
    ELSE None

\* char::to_digit(radix): the digit's value, or -1 when c is no digit of radix
DigitValue(c) ==
    CASE c = "0" -> 0
      [] c = "1" -> 1
      [] c = "7" -> 7
      [] c = "A" -> 10
      [] OTHER -> -1

to_digit(c, radix) == IF DigitValue(c) < radix THEN DigitValue(c) ELSE -1

\* the digit loop of i64::from_str_radix: result = result * radix, then
\* + digit (or - digit for a negative literal), each step checked
RECURSIVE Accumulate(_, _, _, _)
Accumulate(digits, radix, is_positive, acc) ==
    IF digits = <<>> THEN Ok(acc)
    ELSE LET x == to_digit(Head(digits), radix)
             mul == acc * radix
             next == IF is_positive THEN mul + x ELSE mul - x
         IN IF x < 0 THEN Err("InvalidDigit")
            ELSE IF ~InI64(mul) \/ ~InI64(next)
                 THEN Err(IF is_positive THEN "PosOverflow" ELSE "NegOverflow")
            ELSE Accumulate(Tail(digits), radix, is_positive, next)

\* i64::from_str_radix: empty input and a lone sign are errors; one leading
\* '+' or '-' is taken as the sign; every remaining character must be a digit
from_str_radix(src, radix) ==
    IF src = <<>> THEN Err("Empty")
    ELSE IF src = <<"+">> \/ src = <<"-">> THEN Err("InvalidDigit")
    ELSE IF src[1] = "+" THEN Accumulate(Tail(src), radix, TRUE, 0)
    ELSE IF src[1] = "-" THEN Accumulate(Tail(src), radix, FALSE, 0)
    ELSE Accumulate(src, radix, TRUE, 0)

\* a plausible slip: the prefixes are not handled
parse_number_DecimalOnly(s) == from_str_radix(s, 10)

parse_number(s) ==
    LET hex == strip_prefix(s, <<"0", "x">>)
        bin == strip_prefix(s, <<"0", "b">>)
    IN IF hex.k = "Ok" THEN from_str_radix(hex.v, 16)
       ELSE IF bin.k = "Ok" THEN from_str_radix(bin.v, 2)
       ELSE from_str_radix(s, 10)

\* str::contains: needle occurs in hay as a substring
Contains(hay, needle) ==
    \E k \in 0..(Len(hay) - Len(needle)) : SubSeq(hay, k + 1, k + Len(needle)) = needle

parse_expression_token(input) ==
    LET num == parse_number(input)
    IN IF num.k = "Ok" THEN Ok(Number(num.v))
       ELSE IF Contains(<<"+", "x", "/">>, input) /\ Len(input) = 1
            THEN Ok(Operator(input[1]))
       ELSE IF input = <<"[">> THEN Ok(LeftParen)
       ELSE IF input = <<"]">> THEN Ok(RightParen)
       ELSE Err("InvalidToken")

-----------------------------------------------------------------------------
(* evaluate_expression: the arithmetic of one operator application *)

\* left + right, left * right: exact when in range; otherwise the build
\* decides (overflow-checks: a panic; without them: two's-complement wrap)
Checked(exact, checks) ==
    IF InI64(exact) THEN Ok(exact)
    ELSE IF checks = "on" THEN Panic("overflow")
    ELSE Ok(Wrap(exact))

\* left / right after the right == 0 test: i64::MIN / -1 panics in every build
Divide(left, right) ==
    IF right = 0 THEN Err(DivisionByZero)
    ELSE IF left = I64_MIN /\ right = -1 THEN Panic("overflow")
    ELSE Ok(TruncDiv(left, right))

\* the match of the eager reduction (lines 57-66): only 'x' and '/' get here
ApplyPass(op, left, right, checks) ==
    IF op = "x" THEN Checked(left * right, checks) ELSE Divide(left, right)

\* the match of the final drain (lines 112-122)
ApplyDrain(op, left, right, checks) ==
    CASE op = "+" -> Checked(left + right, checks)
      [] op = "x" -> Checked(left * right, checks)
      [] op = "/" -> Divide(left, right)

Last(s) == s[Len(s)]
Front(s) == SubSeq(s, 1, Len(s) - 1)

\* a plausible slip: a missing left operand is taken as 0
PopOperands_DefaultLeft(values) ==
    IF Len(values) = 0 THEN Err(MissingRightOperand)
    ELSE IF Len(values) = 1 THEN Ok([left |-> 0, right |-> values[1]])
    ELSE Ok([left |-> values[Len(values) - 1], right |-> values[Len(values)]])

\* `let right = values.pop().ok_or(..)?; let left = values.pop().ok_or(..)?;`
PopOperands(values) ==
    IF Len(values) = 0 THEN Err(MissingRightOperand)
    ELSE IF Len(values) = 1 THEN Err(MissingLeftOperand)
    ELSE Ok([left |-> values[Len(values) - 1], right |-> values[Len(values)]])

\* the two pops and the application of op in the eager reduction
ReduceStep(values, op, checks) ==
    LET p == PopOperands(values)
    IN IF p.k = "Ok" THEN ApplyPass(op, p.v.left, p.v.right, checks) ELSE p

\* the two pops and the application of op in the drain
DrainStep(values, op, checks) ==
    LET p == PopOperands(values)
    IN IF p.k = "Ok" THEN ApplyDrain(op, p.v.left, p.v.right, checks) ELSE p

\* the mathematical value of left + right or left * right for the operator on
\* top of the operator stack and the two values on top of the value stack
Exact(f) ==
    LET left == f.values[Len(f.values) - 1]
        right == f.values[Len(f.values)]
    IN IF Last(f.operators) = "+" THEN left + right ELSE left * right

\* the next operator application of frame f is a '+' or 'x' whose result does
\* not fit i64
Overflowing(f) ==
    /\ f.operators # <<>> /\ Last(f.operators) \in {"+", "x"}
    /\ Len(f.values) >= 2
    /\ ~InI64(Exact(f))

-----------------------------------------------------------------------------
(* evaluate_expression: the bracket scan (lines 77-92) *)

\* a plausible slip: the end of the sequence closes the open bracket
RECURSIVE Scan_ImplicitClose(_, _, _)
Scan_ImplicitClose(toks, j, c) ==
    IF j > Len(toks) THEN j
    ELSE IF toks[j] = LeftParen THEN Scan_ImplicitClose(toks, j + 1, c + 1)
    ELSE IF toks[j] = RightParen
         THEN IF c - 1 = 0 THEN j ELSE Scan_ImplicitClose(toks, j + 1, c - 1)
    ELSE Scan_ImplicitClose(toks, j + 1, c)

\* a plausible slip: nested LeftParens are not counted
RECURSIVE Scan_FirstRight(_, _, _)
Scan_FirstRight(toks, j, c) ==
    IF j > Len(toks) THEN 0
    ELSE IF toks[j] = RightParen THEN j
    ELSE Scan_FirstRight(toks, j + 1, c)

\* the inner while: from index j with paren_count = c, the index of the token
\* that brings paren_count to 0, or 0 when the end is reached first
RECURSIVE Scan(_, _, _)
Scan(toks, j, c) ==
    IF j > Len(toks) THEN 0
    ELSE IF toks[j] = LeftParen THEN Scan(toks, j + 1, c + 1)
    ELSE IF toks[j] = RightParen
         THEN IF c - 1 = 0 THEN j ELSE Scan(toks, j + 1, c - 1)
    ELSE Scan(toks, j + 1, c)

MatchingParen(toks, i) == Scan(toks, i + 1, 1)

-----------------------------------------------------------------------------
(* Frames of evaluate_expression *)

\* a fresh call on `toks`: i = 0 (here 1), both stacks empty; j is the LeftParen
\* arm's local, kept while the recursive call runs
NewFrame(toks) ==
    [toks |-> toks, i |-> 1, j |-> 0, values |-> <<>>, operators |-> <<>>]

Depth == Len(stack)
Top == stack[Depth]
Running == result = None /\ Depth > 0
InPass(f) == f.i <= Len(f.toks)
Cur(f) == f.toks[f.i]

SetTop(f) == [stack EXCEPT ![Depth] = f]

\* a plausible slip: only 'x' is reduced eagerly
PendingMulDiv_OnlyMul(f) == f.operators # <<>> /\ Last(f.operators) = "x"

\* `if *prev_op == 'x' || *prev_op == '/'` on operators.last()
PendingMulDiv(f) == f.operators # <<>> /\ Last(f.operators) \in {"x", "/"}

-----------------------------------------------------------------------------
(* Inputs *)

Nums == {I64_MIN, -1, 0, 2, I64_MAX}
Ops == {"+", "x", "/"}

ArbNums == {0, 2, I64_MAX}
ArbTokens == {Number(v) : v \in ArbNums} \cup {Operator(c) : c \in Ops}
                 \cup {LeftParen, RightParen}

\* the infix sequences of n Numbers of S with an operator between neighbours
Flat(S, n) ==
    {[k \in 1..(2 * n - 1) |->
        IF k % 2 = 1 THEN Number(nums[(k + 1) \div 2]) ELSE Operator(ops[k \div 2])]
       : nums \in [1..n -> S], ops \in [1..(n - 1) -> Ops]}

\* f with operands p..q (operand k is token 2k-1) enclosed in one bracket pair
Grouped(f, p, q) ==
    [k \in 1..(Len(f) + 2) |->
        IF k < 2 * p - 1 THEN f[k]
        ELSE IF k = 2 * p - 1 THEN LeftParen
        ELSE IF k <= 2 * q THEN f[k - 1]
        ELSE IF k = 2 * q + 1 THEN RightParen
        ELSE f[k - 2]]

\* The inputs: every token sequence of up to MaxLen tokens, and the
\* well-formed infix sequences (operands and operators alternate, an operand
\* being a Number or a bracket group) of up to MaxLeaves Numbers
IsInput(toks) ==
    \/ \E n \in 0..MaxLen : toks \in [1..n -> ArbTokens]
    \/ \E n \in 1..MaxLeaves : toks \in Flat(Nums, n)
    \/ \E n \in 1..MaxLeaves : \E p \in 1..n : \E q \in p..n :
          \E f \in Flat(ArbNums, n) : toks = Grouped(f, p, q)

-----------------------------------------------------------------------------
(* The evaluator as a state machine *)

\* overflow-checks is fixed per build (Cargo: on in the dev profile, off in the
\* release profile) and observed only where an operation overflows: it is left
\* open until the first overflow and kept from there on
Profiles(f) ==
    IF Overflowing(f) /\ overflow_checks = "unknown" THEN {"on", "off"}
    ELSE {overflow_checks}

\* a call of evaluate_expression on a token slice (main makes it for every
\* non-empty args.calc; the empty slice is the function's own boundary case)
Init ==
    /\ raw = <<>>
    /\ tok = None
    /\ IsInput(tokens)
    /\ overflow_checks = "unknown"
    /\ stack = <<NewFrame(tokens)>>
    /\ result = None

\* ExprToken::Number(num) => values.push(*num)
PassNumber ==
    /\ Running /\ InPass(Top) /\ Cur(Top).t = "Number"
    /\ stack' = SetTop([Top EXCEPT !.values = Append(@, Cur(Top).v), !.i = @ + 1])
    /\ UNCHANGED <<raw, tok, tokens, overflow_checks, result>>

\* ExprToken::Operator: one iteration of `while let Some(prev_op)` that finds
\* 'x' or '/' on top of the operator stack
PassReduce ==
    /\ Running /\ InPass(Top) /\ Cur(Top).t = "Operator"
    /\ PendingMulDiv(Top)
    /\ \E checks \in Profiles(Top) :
         LET r == ReduceStep(Top.values, Last(Top.operators), checks)
         IN /\ overflow_checks' = checks
            /\ IF r.k = "Ok"
               THEN /\ stack' = SetTop([Top EXCEPT
                                          !.values = Append(SubSeq(@, 1, Len(@) - 2), r.v),
                                          !.operators = Front(@)])
                    /\ result' = result
               ELSE /\ result' = r
                    /\ stack' = stack
    /\ UNCHANGED <<raw, tok, tokens>>

\* ExprToken::Operator: the loop ends (stack empty, or '+' on top: break) and
\* operators.push(*op)
PassPush ==
    /\ Running /\ InPass(Top) /\ Cur(Top).t = "Operator"
    /\ ~PendingMulDiv(Top)
    /\ stack' = SetTop([Top EXCEPT !.operators = Append(@, Cur(Top).c), !.i = @ + 1])
    /\ UNCHANGED <<raw, tok, tokens, overflow_checks, result>>

\* ExprToken::LeftParen: scan for the matching bracket, then the recursive call
PassLeftParen ==
    /\ Running /\ InPass(Top) /\ Cur(Top) = LeftParen
    /\ LET j == MatchingParen(Top.toks, Top.i)
       IN IF j = 0
          THEN /\ result' = Err(UnbalancedBrackets)
               /\ stack' = stack
          ELSE /\ stack' = Append(SetTop([Top EXCEPT !.j = j]),
                                  NewFrame(SubSeq(Top.toks, Top.i + 1, j - 1)))
               /\ result' = result
    /\ UNCHANGED <<raw, tok, tokens, overflow_checks>>

\* ExprToken::RightParen => return Err
PassRightParen ==
    /\ Running /\ InPass(Top) /\ Cur(Top) = RightParen
    /\ result' = Err(UnmatchedRightBracket)
    /\ UNCHANGED <<raw, tok, tokens, overflow_checks, stack>>

\* one iteration of `while let Some(op) = operators.pop()`
Drain ==
    /\ Running /\ ~InPass(Top) /\ Top.operators # <<>>
    /\ \E checks \in Profiles(Top) :
         LET r == DrainStep(Top.values, Last(Top.operators), checks)
         IN /\ overflow_checks' = checks
            /\ IF r.k = "Ok"
               THEN /\ stack' = SetTop([Top EXCEPT
                                          !.values = Append(SubSeq(@, 1, Len(@) - 2), r.v),
                                          !.operators = Front(@)])
                    /\ result' = result
               ELSE /\ result' = r
                    /\ stack' = SetTop([Top EXCEPT !.operators = Front(@)])
    /\ UNCHANGED <<raw, tok, tokens>>

\* a plausible slip: an empty value stack yields 0 instead of the error
Return_DefaultZero ==
    /\ Running /\ ~InPass(Top) /\ Top.operators = <<>>
    /\ LET v == IF Top.values = <<>> THEN 0 ELSE Last(Top.values)
       IN IF Depth = 1
          THEN /\ result' = Ok(v)
               /\ stack' = SetTop([Top EXCEPT !.values = <<>>])
          ELSE /\ result' = result
               /\ stack' = [k \in 1..(Depth - 1) |->
                              IF k = Depth - 1
                              THEN [stack[k] EXCEPT !.values = Append(@, v),
                                                    !.i = stack[k].j + 1]
                              ELSE stack[k]]
    /\ UNCHANGED <<raw, tok, tokens, overflow_checks>>

\* values.pop().ok_or(..): the call returns; a recursive call hands its value
\* to the caller's LeftParen arm (values.push(sub_result); i = j; i += 1)
Return ==
    /\ Running /\ ~InPass(Top) /\ Top.operators = <<>>
    /\ IF Top.values = <<>>
       THEN /\ result' = Err(EmptyExpression)
            /\ stack' = stack
       ELSE IF Depth = 1
       THEN /\ result' = Ok(Last(Top.values))
            /\ stack' = SetTop([Top EXCEPT !.values = Front(@)])
       ELSE /\ result' = result
            /\ stack' = [k \in 1..(Depth - 1) |->
                           IF k = Depth - 1
                           THEN [stack[k] EXCEPT
                                   !.values = Append(@, Last(Top.values)),
                                   !.i = stack[k].j + 1]
                           ELSE stack[k]]
    /\ UNCHANGED <<raw, tok, tokens, overflow_checks>>

Next ==
    \/ PassNumber
    \/ PassReduce
    \/ PassPush
    \/ PassLeftParen
    \/ PassRightParen
    \/ Drain
    \/ Return

Spec == Init /\ [][Next]_vars

-----------------------------------------------------------------------------
(* The token classifier applied to one argument string *)

InitTok ==
    /\ \E n \in 0..MaxRaw : raw \in [1..n -> RawChars]
    /\ tok = None
    /\ tokens = <<>>
    /\ overflow_checks = "unknown"
    /\ stack = <<>>
    /\ result = None

\* clap's value_parser calls parse_expression_token on the argument
Tokenize ==
    /\ tok = None
    /\ tok' = parse_expression_token(raw)
    /\ UNCHANGED <<raw, tokens, overflow_checks, stack, result>>

NextTok == Tokenize

SpecTok == InitTok /\ [][NextTok]_vars

-----------------------------------------------------------------------------
(* Reference semantics of infix expressions, by recursive descent on the    *)
(* last top-level operator: bracket groups first, 'x' and '/' tighter than  *)
(* '+', equal precedence left to right, '/' truncating toward zero.         *)
(* wf: the sequence is a well-formed infix sequence; def: no divisor is 0   *)
(* and no intermediate result leaves i64; dz: some divisor evaluates to 0.  *)

Count(toks, lo, hi, t) == Cardinality({m \in lo..hi : toks[m] = t})

\* unmatched LeftParens among tokens 1..k-1
DepthBefore(toks, k) ==
    Count(toks, 1, k - 1, LeftParen) - Count(toks, 1, k - 1, RightParen)

TopLevelOps(toks, S) ==
    {k \in 1..Len(toks) : /\ toks[k].t = "Operator"
                          /\ toks[k].c \in S
                          /\ DepthBefore(toks, k) = 0}

SetMax(S) == CHOOSE m \in S : \A n \in S : n <= m

NotWellFormed == [wf |-> FALSE, def |-> FALSE, dz |-> FALSE, v |-> 0]

RefApply(c, l, r) ==
    LET exact == CASE c = "+" -> l.v + r.v
                   [] c = "x" -> l.v * r.v
                   [] c = "/" -> IF r.v = 0 THEN 0 ELSE TruncDiv(l.v, r.v)
        zero == c = "/" /\ r.def /\ r.v = 0
        def == l.def /\ r.def /\ ~zero /\ InI64(exact)
    IN IF ~(l.wf /\ r.wf) THEN NotWellFormed
       ELSE [wf |-> TRUE, def |-> def, dz |-> l.dz \/ r.dz \/ zero,
             v |-> IF def THEN exact ELSE 0]

RECURSIVE RefExpr(_), RefTerm(_), RefFactor(_)
RefExpr(toks) ==
    LET plus == TopLevelOps(toks, {"+"})
    IN IF plus = {} THEN RefTerm(toks)
       ELSE LET k == SetMax(plus)
            IN RefApply("+", RefExpr(SubSeq(toks, 1, k - 1)),
                        RefTerm(SubSeq(toks, k + 1, Len(toks))))

RefTerm(toks) ==
    LET muldiv == TopLevelOps(toks, {"x", "/"})
    IN IF muldiv = {} THEN RefFactor(toks)
       ELSE LET k == SetMax(muldiv)
            IN RefApply(toks[k].c, RefTerm(SubSeq(toks, 1, k - 1)),
                        RefFactor(SubSeq(toks, k + 1, Len(toks))))

RefFactor(toks) ==
    IF Len(toks) = 1 /\ toks[1].t = "Number"
    THEN [wf |-> TRUE, def |-> TRUE, dz |-> FALSE, v |-> toks[1].v]
    ELSE IF /\ Len(toks) >= 2
            /\ toks[1] = LeftParen
            /\ toks[Len(toks)] = RightParen
            /\ \A k \in 2..Len(toks) : DepthBefore(toks, k) >= 1
            /\ DepthBefore(toks, Len(toks) + 1) = 0
    THEN RefExpr(SubSeq(toks, 2, Len(toks) - 1))
    ELSE NotWellFormed

Ref == RefExpr(tokens)

Finished == result # None

-----------------------------------------------------------------------------
(* Claims *)

\* C1: for every well-formed infix sequence in which no divisor evaluates to
\* zero and no intermediate result of the reference evaluation leaves i64,
\* evaluate_expression returns the reference value.
C1_ReferenceValue ==
    (Finished /\ Ref.wf /\ Ref.def) => result = Ok(Ref.v)

\* Side result for C1: the evaluation of such a sequence either returns the
\* reference value or panics on an overflow of its own right-to-left drain.
ValueUnlessPanic ==
    (Finished /\ Ref.wf /\ Ref.def) => (result = Ok(Ref.v) \/ result.k = "Panic")

\* the frame is about to pop two values and apply the operator on top of its
\* operator stack (eager reduction in the pass, or the drain)
Applying(f) ==
    \/ InPass(f) /\ Cur(f).t = "Operator" /\ PendingMulDiv(f)
    \/ ~InPass(f) /\ f.operators # <<>>

\* the mathematical result of the application the frame is about to make
ExactResult(f) ==
    LET left == f.values[Len(f.values) - 1]
        right == f.values[Len(f.values)]
    IN CASE Last(f.operators) = "+" -> left + right
         [] Last(f.operators) = "x" -> left * right
         [] Last(f.operators) = "/" -> IF right = 0 THEN 0 ELSE TruncDiv(left, right)

\* C2: no token sequence makes evaluate_expression crash, and no arithmetic
\* step is executed with operands whose result is outside i64.
C2_NoCrashNoOverflow ==
    /\ result.k # "Panic"
    /\ (Running /\ Applying(Top) /\ Len(Top.values) >= 2) => InI64(ExactResult(Top))

\* C3: whenever evaluate_expression returns a value, that value was the sole
\* entry of the value stack (nothing is left after the final pop).
C3_SoleValue ==
    result.k = "Ok" => stack[1].values = <<>>

\* C4: every well-formed infix expression in which some divisor evaluates to 0
\* fails with DivisionByZero.
C4_ZeroDivisorFails ==
    (Finished /\ Ref.wf /\ Ref.dz) => result = Err(DivisionByZero)

\* Side result for C4: an application of '/' with both operands present and a
\* right operand of 0 fails the whole evaluation with DivisionByZero.
DivideByZeroStep ==
    [][(/\ Running /\ Applying(Top) /\ Len(Top.values) >= 2
        /\ Last(Top.operators) = "/" /\ Last(Top.values) = 0)
       => result' = Err(DivisionByZero)]_vars

\* from index i on, the LeftParens always outnumber the RightParens: the
\* bracket at i is never closed
Unclosed(toks, i) ==
    \A j \in (i + 1)..Len(toks) :
        Count(toks, i, j, LeftParen) > Count(toks, i, j, RightParen)

\* C5: when the pass reaches a LeftParen whose depth never returns to 0 before
\* the end of the sequence, the evaluation fails with UnbalancedBrackets and
\* nothing after that LeftParen is evaluated (no value or operator is pushed, no
\* recursive call is made).
C5_UnbalancedFails ==
    [][(Running /\ InPass(Top) /\ Cur(Top) = LeftParen /\ Unclosed(Top.toks, Top.i))
       => (result' = Err(UnbalancedBrackets) /\ stack' = stack)]_vars

C5_Witness ==
    /\ tokens = <<LeftParen, Number(2), Operator("+"), Number(2)>>
    /\ result = Err(UnbalancedBrackets)

\* C6: the evaluation of the empty sequence fails with EmptyExpression; a
\* LeftParen immediately followed by its RightParen starts a recursive call on
\* the empty sequence, and a call on the empty sequence, at any depth, ends the
\* whole evaluation with EmptyExpression.
C6_EmptyFails ==
    /\ []((tokens = <<>> /\ Finished) => result = Err(EmptyExpression))
    /\ [][(/\ Running /\ InPass(Top) /\ Cur(Top) = LeftParen
           /\ Top.i < Len(Top.toks) /\ Top.toks[Top.i + 1] = RightParen)
          => (/\ Len(stack') = Depth + 1
              /\ stack'[Depth + 1].toks = <<>>
              /\ result' = None)]_vars
    /\ [][(Running /\ Top.toks = <<>>) => result' = Err(EmptyExpression)]_vars

C6_Witness ==
    /\ tokens = <<LeftParen, LeftParen, RightParen, RightParen>>
    /\ Depth = 3
    /\ result = Err(EmptyExpression)

\* the operands at the top level of toks: Numbers and bracket groups
TopOperands(toks) ==
    Cardinality({k \in 1..Len(toks) :
                   /\ DepthBefore(toks, k) = 0
                   /\ (toks[k].t = "Number" \/ toks[k] = LeftParen)})

\* C7: an operator applied (eager reduction or drain) while fewer than two
\* values are on the value stack fails the evaluation with a missing-operand
\* error; no sequence with at least as many top-level operators as top-level
\* operands yields a value.
C7_MissingOperand ==
    /\ [](result.k = "Ok" =>
            Cardinality(TopLevelOps(tokens, Ops)) < TopOperands(tokens))
    /\ [][(Running /\ Applying(Top) /\ Len(Top.values) < 2)
          => result' \in {Err(MissingRightOperand), Err(MissingLeftOperand)}]_vars

C7_Witness ==
    /\ tokens = <<Number(2), Operator("+")>>
    /\ result = Err(MissingLeftOperand)

\* every prefix holds at least as many LeftParens as RightParens, the whole
\* sequence as many
Balanced(toks) ==
    /\ \A k \in 1..(Len(toks) + 1) : DepthBefore(toks, k) >= 0
    /\ DepthBefore(toks, Len(toks) + 1) = 0

PlusCount(ops) == Cardinality({k \in 1..Len(ops) : ops[k] = "+"})

\* C10: in every call, at every step, the operator stack is a run of '+' with at
\* most one 'x' or '/', which is then on top; no '+' leaves the operator stack
\* while its call is still in the pass.
C10_OperatorStackShape ==
    /\ [](\A k \in 1..Depth :
            \A m \in 1..(Len(stack[k].operators) - 1) : stack[k].operators[m] = "+")
    /\ [][\A k \in 1..Depth :
            (InPass(stack[k]) /\ k <= Len(stack'))
            => PlusCount(stack'[k].operators) >= PlusCount(stack[k].operators)]_vars

C10_Witness ==
    /\ Depth = 1 /\ ~InPass(Top)
    /\ Top.operators = <<"+", "x">>
    /\ Len(Top.values) = 3

-----------------------------------------------------------------------------
(* The numeric literals, stated on the whole string *)

StartsWith(s, a, b) == Len(s) >= 2 /\ s[1] = a /\ s[2] = b

LitRadix(s) ==
    IF StartsWith(s, "0", "x") THEN 16 ELSE IF StartsWith(s, "0", "b") THEN 2 ELSE 10

LitBody(s) == IF LitRadix(s) = 10 THEN s ELSE SubSeq(s, 3, Len(s))

Signed(b) == b # <<>> /\ b[1] \in {"+", "-"}
LitDigits(s) == IF Signed(LitBody(s)) THEN Tail(LitBody(s)) ELSE LitBody(s)
LitSign(s) == IF Signed(LitBody(s)) /\ LitBody(s)[1] = "-" THEN -1 ELSE 1

\* the value of a digit string, its last digit the units
RECURSIVE Positional(_, _)
Positional(ds, radix) ==
    IF ds = <<>> THEN 0
    ELSE DigitValue(Last(ds)) + radix * Positional(Front(ds), radix)

LitValue(s) == LitSign(s) * Positional(LitDigits(s), LitRadix(s))

IsLiteral(s) ==
    /\ LitDigits(s) # <<>>
    /\ \A k \in 1..Len(LitDigits(s)) :
          DigitValue(LitDigits(s)[k]) \in 0..(LitRadix(s) - 1)
    /\ InI64(LitValue(s))

Classify(s) ==
    IF IsLiteral(s) THEN Ok(Number(LitValue(s)))
    ELSE IF s \in {<<"+">>, <<"x">>, <<"/">>} THEN Ok(Operator(s[1]))
    ELSE IF s = <<"[">> THEN Ok(LeftParen)
    ELSE IF s = <<"]">> THEN Ok(RightParen)
    ELSE Err("InvalidToken")

====
